---- MODULE Spec2Model ----
(***************************************************************************)
(* Model of src/path_integration/model_lstm.py: the GridTorch module.      *)
(*                                                                         *)
(* Tensors are modelled by their shape and by the node of the dataflow     *)
(* graph that produced their data; parameters by their shape and by where  *)
(* their data came from.  A truncated-normal weight is kept as one         *)
(* representative element: the selected standard-normal draw `num` and the *)
(* `size` passed, the element being mean + num * (1 / sqrt(size)).         *)
(*                                                                         *)
(* SpecInit covers the constructor up to line 65 (layer creation and       *)
(* initialisation); Spec starts from the state line 65 leaves and covers   *)
(* the end of the constructor, init_weights_from_file and forward.         *)
(***************************************************************************)
EXTENDS Integers, Sequences, FiniteSets, TLC

VARIABLES cfg, pc, params, li, tensor, tmp, dir, opened, loadstat, inp, fstat, k, h_t, c_t, lists, graph, outs

vars == <<cfg, pc, params, li, tensor, tmp, dir, opened, loadstat, inp, fstat, k, h_t, c_t, lists, graph, outs>>

(***************************************************************************)
(* Bounds of the model                                                     *)
(***************************************************************************)
MaxT == 5

MaxBatch == 2

MaxMissing == 3

\* standard-normal candidates a draw may produce (a finite sample of the reals)
Draws == {-3, -1, 1, 2}

\* draws used for the weights of the models Spec starts from
FixedTmp == <<2, 1, -3, 2>>

\* abstract dropout masks
Masks == {0, 1}

(***************************************************************************)
(* Construction parameters (lines 27-37)                                   *)
(***************************************************************************)
BaseConfigs ==
  { [nh_lstm |-> 128, nh_bottleneck |-> 256, n_pcs |-> 256, n_hdcs |-> 12,
     te |-> <<256, 12>>, bottleneck_has_bias |-> FALSE, weights_loc |-> FALSE],
    [nh_lstm |-> 8, nh_bottleneck |-> 8, n_pcs |-> 4, n_hdcs |-> 2,
     te |-> <<4, 2>>, bottleneck_has_bias |-> FALSE, weights_loc |-> FALSE],
    [nh_lstm |-> 8, nh_bottleneck |-> 8, n_pcs |-> 256, n_hdcs |-> 12,
     te |-> <<4, 2>>, bottleneck_has_bias |-> TRUE, weights_loc |-> FALSE] }

\* weights_loc is either None (FALSE) or a location (TRUE)
Configs == BaseConfigs \cup {[c EXCEPT !.weights_loc = TRUE] : c \in BaseConfigs}

NumDraws == 4

InputSize == 3

Linears == <<"state_embed", "cell_embed", "bottleneck", "pc_logits", "hd_logits">>

LinearSet == {Linears[i] : i \in 1..Len(Linears)}

LstmParams == {"weight_ih_l0", "weight_hh_l0", "bias_ih_l0", "bias_hh_l0"}

ParamNames == (LinearSet \X {"weight", "bias"}) \cup ({"lstm"} \X (LstmParams \cup {"weight", "bias"}))

Absent == [shape |-> <<>>, origin |-> "absent", num |-> 0, size |-> 0, file |-> ""]

Fresh(shape, origin) == [shape |-> shape, origin |-> origin, num |-> 0, size |-> 0, file |-> ""]

\* in_features and out_features of the linear layers (lines 41-48)
InFeatures(c, l) ==
  CASE l = "state_embed" -> c.n_pcs + c.n_hdcs
    [] l = "cell_embed"  -> c.n_pcs + c.n_hdcs
    [] l = "bottleneck"  -> c.nh_lstm
    [] l = "pc_logits"   -> c.nh_bottleneck
    [] l = "hd_logits"   -> c.nh_bottleneck

OutFeatures(c, l) ==
  CASE l = "state_embed" -> c.nh_lstm
    [] l = "cell_embed"  -> c.nh_lstm
    [] l = "bottleneck"  -> c.nh_bottleneck
    [] l = "pc_logits"   -> c.te[1]
    [] l = "hd_logits"   -> c.te[2]

HasBias(c, l) == l = "bottleneck" => c.bottleneck_has_bias

\* lines 41-50: the layers with the library's default initialisation
CreateLayers(c) ==
  [p \in ParamNames |->
     IF p[1] \in LinearSet
     THEN IF p[2] = "weight" THEN Fresh(<<OutFeatures(c, p[1]), InFeatures(c, p[1])>>, "default")
          ELSE IF HasBias(c, p[1]) THEN Fresh(<<OutFeatures(c, p[1])>>, "default") ELSE Absent
     ELSE CASE p[2] = "weight_ih_l0" -> Fresh(<<4 * c.nh_lstm, InputSize>>, "default")
            [] p[2] = "weight_hh_l0" -> Fresh(<<4 * c.nh_lstm, c.nh_lstm>>, "default")
            [] p[2] \in {"bias_ih_l0", "bias_hh_l0"} -> Fresh(<<4 * c.nh_lstm>>, "default")
            [] OTHER -> Absent]

(***************************************************************************)
(* truncated_normal_ (lines 6-14), per element                             *)
(***************************************************************************)
\* line 10: valid = (tmp < 2) & (tmp > -2)
Valid(t) == [i \in 1..NumDraws |-> t[i] < 2 /\ t[i] > -2]

\* Ind were the index of the last maximal value returned instead of the first
IndLast(t) ==
  LET v == Valid(t)
      m == \E i \in 1..NumDraws : v[i]
  IN CHOOSE i \in 1..NumDraws : v[i] = m /\ \A j \in (i+1)..NumDraws : v[j] # m

\* line 11: valid.max(-1)[1], the index of the first maximal value (TRUE > FALSE)
Ind(t) ==
  LET v == Valid(t)
      m == \E i \in 1..NumDraws : v[i]
  IN CHOOSE i \in 1..NumDraws : v[i] = m /\ \A j \in 1..(i-1) : v[j] # m

\* lines 12-13: gather the selected draw, then mul_(std).add_(mean); std = 1/sqrt(size)
TruncatedNormal(w, t, size) == [w EXCEPT !.origin = "trunc", !.num = t[Ind(t)], !.size = size]

\* TruncSize were hd_logits given the default width of its input (256)
TruncSizeHdIn(l) ==
  CASE l = "state_embed" -> 128
    [] l = "cell_embed"  -> 128
    [] l = "bottleneck"  -> 256
    [] l = "pc_logits"   -> 256
    [] l = "hd_logits"   -> 256

\* lines 53-57: the size passed to init_trunc_normal for each layer
TruncSize(l) ==
  CASE l = "state_embed" -> 128
    [] l = "cell_embed"  -> 128
    [] l = "bottleneck"  -> 256
    [] l = "pc_logits"   -> 256
    [] l = "hd_logits"   -> 12

\* lines 17-19 applied to the weight of layer l
InitTruncNormal(p, l, t) == [p EXCEPT ![<<l, "weight">>] = TruncatedNormal(@, t, TruncSize(l))]

\* lines 58-65: kaiming_uniform_ on the two LSTM weights, zeros_ on six biases
InitRest(p) ==
  [q \in ParamNames |->
     IF q \in {<<"lstm", "weight_ih_l0">>, <<"lstm", "weight_hh_l0">>}
     THEN [p[q] EXCEPT !.origin = "kaiming"]
     ELSE IF q \in {<<"state_embed", "bias">>, <<"cell_embed", "bias">>, <<"pc_logits", "bias">>,
                    <<"hd_logits", "bias">>, <<"lstm", "bias_hh_l0">>, <<"lstm", "bias_ih_l0">>}
     THEN [p[q] EXCEPT !.origin = "zero"]
     ELSE p[q]]

RECURSIVE TruncAll(_, _, _)
TruncAll(p, n, t) == IF n = 0 THEN p ELSE InitTruncNormal(TruncAll(p, n - 1, t), Linears[n], t)

\* the parameters line 65 leaves when every truncated_normal_ call drew t
ParamsAfterInit(c, t) == InitRest(TruncAll(CreateLayers(c), Len(Linears), t))

NoTensor == [shape |-> <<>>, id |-> 0]

NoLists == [logits_hd |-> <<>>, logits_pc |-> <<>>, bottleneck_acts |-> <<>>,
            rnn_states |-> <<>>, cell_states |-> <<>>]

NoDir == [missing |-> {}, bad |-> "none"]

NoInp == [B |-> 0, T |-> 0, w |-> 0, ic |-> <<0, 0>>, training |-> TRUE]

Idle ==
  /\ dir = NoDir /\ opened = {} /\ loadstat = "none"
  /\ inp = NoInp /\ fstat = "idle" /\ k = 0 /\ h_t = NoTensor /\ c_t = NoTensor
  /\ lists = NoLists /\ graph = <<>> /\ outs = <<>>

(***************************************************************************)
(* The constructor up to line 65                                           *)
(***************************************************************************)
InitCtor ==
  /\ cfg \in Configs
  /\ pc = "new"
  /\ params = [p \in ParamNames |-> Absent]
  /\ li = 0
  /\ tensor = Absent
  /\ tmp = <<>>
  /\ Idle

\* lines 38-50
CtorCreateLayers ==
  /\ pc = "new"
  /\ params' = CreateLayers(cfg)
  /\ pc' = "trunc"
  /\ UNCHANGED <<cfg, li, tensor, tmp, dir, opened, loadstat, inp, fstat, k, h_t, c_t, lists, graph, outs>>

\* lines 53-57, one call of init_trunc_normal per step, in source order
CtorTruncNormal ==
  /\ pc = "trunc"
  /\ li < Len(Linears)
  /\ \E t \in [1..NumDraws -> Draws] : params' = InitTruncNormal(params, Linears[li + 1], t)
  /\ li' = li + 1
  /\ UNCHANGED <<cfg, pc, tensor, tmp, dir, opened, loadstat, inp, fstat, k, h_t, c_t, lists, graph, outs>>

\* lines 58-65
CtorInitRest ==
  /\ pc = "trunc"
  /\ li = Len(Linears)
  /\ params' = InitRest(params)
  /\ pc' = "inited"
  /\ UNCHANGED <<cfg, li, tensor, tmp, dir, opened, loadstat, inp, fstat, k, h_t, c_t, lists, graph, outs>>

NextInit == CtorCreateLayers \/ CtorTruncNormal \/ CtorInitRest

SpecInit == InitCtor /\ [][NextInit]_vars

(***************************************************************************)
(* truncated_normal_ on its own: one element, every outcome of the draws   *)
(***************************************************************************)
TruncSizes == {TruncSize(Linears[i]) : i \in 1..Len(Linears)}

InitTrunc ==
  /\ cfg \in {c \in Configs : c.nh_lstm = 128 /\ ~c.weights_loc}
  /\ pc = "tn_call"
  /\ params = [p \in ParamNames |-> Absent]
  /\ li = 0
  /\ tensor = Fresh(<<1>>, "default")
  /\ tmp = <<>>
  /\ Idle

\* lines 6-14, called as init_trunc_normal does (lines 17-19)
CallTruncatedNormal ==
  /\ pc = "tn_call"
  /\ \E t \in [1..NumDraws -> Draws], size \in TruncSizes :
       /\ tmp' = t
       /\ tensor' = TruncatedNormal(tensor, t, size)
  /\ pc' = "tn_done"
  /\ UNCHANGED <<cfg, params, li, dir, opened, loadstat, inp, fstat, k, h_t, c_t, lists, graph, outs>>

NextTrunc == CallTruncatedNormal

SpecTrunc == InitTrunc /\ [][NextTrunc]_vars

InRange(t) == {i \in 1..NumDraws : t[i] > -2 /\ t[i] < 2}

Abs(n) == IF n < 0 THEN -n ELSE n

Least(S) == CHOOSE i \in S : \A j \in S : i <= j

\* C8 (as stated): truncated_normal_ selects the first candidate strictly inside
\* (-2, 2); when none of the 4 is in range it selects the candidate of
\* smallest absolute value.
C8_Original ==
  pc = "tn_done" =>
    /\ InRange(tmp) # {} => tensor.num = tmp[Least(InRange(tmp))]
    /\ InRange(tmp) = {} => \A i \in 1..NumDraws : Abs(tensor.num) <= Abs(tmp[i])

\* C8 (amended): truncated_normal_ selects the first candidate strictly inside
\* (-2, 2); when none of the 4 is in range it selects the first candidate
\* (index 0 of the 4), whatever its magnitude.
C8_FirstInRangeElseFirst ==
  pc = "tn_done" =>
    /\ InRange(tmp) # {} => tensor.num = tmp[Least(InRange(tmp))]
    /\ InRange(tmp) = {} => tensor.num = tmp[1]

\* none of the 4 candidates is in range and the first one is not the nearest
C8_Witness ==
  /\ pc = "tn_done"
  /\ InRange(tmp) = {}
  /\ \E i \in 1..NumDraws : Abs(tmp[i]) < Abs(tmp[1])
  /\ tensor.num = tmp[1]

(***************************************************************************)
(* Claims about the constructor                                            *)
(***************************************************************************)
ZeroedBiases == {<<"state_embed", "bias">>, <<"cell_embed", "bias">>, <<"pc_logits", "bias">>,
                 <<"hd_logits", "bias">>, <<"lstm", "bias_hh_l0">>, <<"lstm", "bias_ih_l0">>}

\* C7 (as stated): after construction without weights_loc every element of
\* the five linear weights lies within [-2*std, 2*std], std = 1/sqrt(size),
\* whatever the 4 draws were, and the six listed biases are exactly zero.
C7_Claim ==
  (pc = "inited" /\ ~cfg.weights_loc) =>
    /\ \A l \in LinearSet :
         /\ params[<<l, "weight">>].origin = "trunc"
         /\ params[<<l, "weight">>].num >= -2
         /\ params[<<l, "weight">>].num <= 2
    /\ \A b \in ZeroedBiases : params[b].origin = "zero"

LoadFilesNoBottleneck ==
  << [file |-> "grid_cells_core_pc_logits_w_0", attr |-> <<"pc_logits", "weight">>],
     [file |-> "grid_cells_core_pc_logits_b_0", attr |-> <<"pc_logits", "bias">>],
     [file |-> "grid_cells_core_pc_logits_1_w_0", attr |-> <<"hd_logits", "weight">>],
     [file |-> "grid_cells_core_pc_logits_1_b_0", attr |-> <<"hd_logits", "bias">>],
     [file |-> "grid_cell_supervised_state_init_w_0", attr |-> <<"state_embed", "weight">>],
     [file |-> "grid_cell_supervised_state_init_b_0", attr |-> <<"state_embed", "bias">>],
     [file |-> "grid_cell_supervised_cell_init_w_0", attr |-> <<"cell_embed", "weight">>],
     [file |-> "grid_cell_supervised_cell_init_b_0", attr |-> <<"cell_embed", "bias">>],
     [file |-> "grid_cells_core_lstm_w_gates_0", attr |-> <<"local", "lstm_ws">>],
     [file |-> "grid_cells_core_lstm_b_gates_0", attr |-> <<"local", "lstm_bs">>] >>

\* lines 75-85 in source order: the file each np.load reads and what receives it
LoadFiles ==
  << [file |-> "grid_cells_core_pc_logits_w_0", attr |-> <<"pc_logits", "weight">>],
     [file |-> "grid_cells_core_pc_logits_b_0", attr |-> <<"pc_logits", "bias">>],
     [file |-> "grid_cells_core_pc_logits_1_w_0", attr |-> <<"hd_logits", "weight">>],
     [file |-> "grid_cells_core_pc_logits_1_b_0", attr |-> <<"hd_logits", "bias">>],
     [file |-> "grid_cells_core_bottleneck_w_0", attr |-> <<"bottleneck", "weight">>],
     [file |-> "grid_cell_supervised_state_init_w_0", attr |-> <<"state_embed", "weight">>],
     [file |-> "grid_cell_supervised_state_init_b_0", attr |-> <<"state_embed", "bias">>],
     [file |-> "grid_cell_supervised_cell_init_w_0", attr |-> <<"cell_embed", "weight">>],
     [file |-> "grid_cell_supervised_cell_init_b_0", attr |-> <<"cell_embed", "bias">>],
     [file |-> "grid_cells_core_lstm_w_gates_0", attr |-> <<"local", "lstm_ws">>],
     [file |-> "grid_cells_core_lstm_b_gates_0", attr |-> <<"local", "lstm_bs">>] >>

Files == {LoadFiles[i].file : i \in 1..Len(LoadFiles)}

\* what the directory may hold: a set of missing files, and at most one array
\* stored with other dimensions ("gates_1d": the gate weights stored 1-D)
Dirs ==
  [missing : {m \in SUBSET Files : Cardinality(m) <= MaxMissing},
   bad : Files \cup {"none", "gates_1d"}]

Reverse(s) == [i \in 1..Len(s) |-> s[Len(s) + 1 - i]]

\* the shape of the saved array that fits the model: the transposed convention
FittingShape(c, e) ==
  CASE e.attr = <<"local", "lstm_ws">> -> <<InputSize + c.nh_lstm, 4 * c.nh_lstm>>
    [] e.attr = <<"local", "lstm_bs">> -> <<4 * c.nh_lstm>>
    [] OTHER -> Reverse(CreateLayers(c)[e.attr].shape)

FileShape(c, d, e) ==
  LET s == FittingShape(c, e)
  IN IF d.bad = e.file THEN [i \in 1..Len(s) |-> s[i] + 1]
     ELSE IF d.bad = "gates_1d" /\ e.attr = <<"local", "lstm_ws">> THEN <<s[1] * s[2]>>
     ELSE s

\* nn.Parameter(torch.Tensor(np.load(file).T))
LoadTfParam(c, d, e) ==
  [shape |-> Reverse(FileShape(c, d, e)), origin |-> "file", num |-> 0, size |-> 0, file |-> e.file]

\* FailLine were every loaded array compared with the parameter it replaces
FailLineShapeChecked(c, d) ==
  LET miss == {i \in 1..Len(LoadFiles) : LoadFiles[i].file \in d.missing}
  IN IF miss # {} THEN Least(miss)
     ELSE IF d.bad # "none" THEN Len(LoadFiles) + 1
     ELSE 0

\* the statement that raises, 0 when none does: np.load raises on the first
\* missing file; line 86, lstm_ws.transpose(1, 0), raises on an array of
\* fewer than 2 dimensions.  No statement compares shapes.
FailLine(c, d) ==
  LET miss == {i \in 1..Len(LoadFiles) : LoadFiles[i].file \in d.missing}
      ws == CHOOSE i \in 1..Len(LoadFiles) : LoadFiles[i].attr = <<"local", "lstm_ws">>
  IN IF miss # {} THEN Least(miss)
     ELSE IF Len(LoadTfParam(c, d, LoadFiles[ws]).shape) < 2 THEN Len(LoadFiles) + 1
     ELSE 0

\* Assigned were the load all-or-nothing
AssignedAtomic(fail) ==
  IF fail = 0 THEN {i \in 1..Len(LoadFiles) : LoadFiles[i].attr[1] # "local"} ELSE {}

\* the assignments of lines 75-83 executed before statement `fail` raised
Assigned(fail) ==
  {i \in 1..Len(LoadFiles) : LoadFiles[i].attr[1] # "local" /\ (fail = 0 \/ i < fail)}

\* the files np.load has read when the call ends
Opened(fail) ==
  {LoadFiles[i].file : i \in {j \in 1..Len(LoadFiles) : fail = 0 \/ j < fail}}

\* lines 75-87: the parameters when the call ends, by return or by raising
InitWeightsFromFile(p, c, d) ==
  LET fail == FailLine(c, d)
      ws == CHOOSE i \in 1..Len(LoadFiles) : LoadFiles[i].attr = <<"local", "lstm_ws">>
      bs == CHOOSE i \in 1..Len(LoadFiles) : LoadFiles[i].attr = <<"local", "lstm_bs">>
      lws == LoadTfParam(c, d, LoadFiles[ws])
  IN [q \in ParamNames |->
        IF \E i \in Assigned(fail) : LoadFiles[i].attr = q
        THEN LoadTfParam(c, d, LoadFiles[CHOOSE i \in Assigned(fail) : LoadFiles[i].attr = q])
        ELSE IF fail = 0 /\ q = <<"lstm", "weight">>
        THEN [lws EXCEPT !.shape = <<lws.shape[2], lws.shape[1]>>]
        ELSE IF fail = 0 /\ q = <<"lstm", "bias">>
        THEN LoadTfParam(c, d, LoadFiles[bs])
        ELSE p[q]]

LoadStatus(fail) ==
  IF fail = 0 THEN "ok"
  ELSE IF fail <= Len(LoadFiles) THEN "FileNotFoundError"
  ELSE "IndexError"

(***************************************************************************)
(* The end of the constructor (lines 67-68)                                *)
(***************************************************************************)
Init ==
  /\ cfg \in Configs
  /\ pc = "inited"
  /\ params = ParamsAfterInit(cfg, FixedTmp)
  /\ li = Len(Linears)
  /\ tensor = Absent
  /\ tmp = <<>>
  /\ Idle

\* line 67 with weights_loc None: the constructor returns the model
CtorNoWeights ==
  /\ pc = "inited"
  /\ ~cfg.weights_loc
  /\ pc' = "constructed"
  /\ UNCHANGED <<cfg, params, li, tensor, tmp, dir, opened, loadstat, inp, fstat, k, h_t, c_t, lists, graph, outs>>

\* lines 67-68 with a weights_loc: the constructor returns the model when
\* init_weights_from_file returns, and raises what it raises
CtorLoadWeights ==
  /\ pc = "inited"
  /\ cfg.weights_loc
  /\ \E d \in Dirs :
       /\ dir' = d
       /\ params' = InitWeightsFromFile(params, cfg, d)
       /\ opened' = Opened(FailLine(cfg, d))
       /\ loadstat' = LoadStatus(FailLine(cfg, d))
       /\ pc' = IF FailLine(cfg, d) = 0 THEN "constructed" ELSE "raised"
  /\ UNCHANGED <<cfg, li, tensor, tmp, inp, fstat, k, h_t, c_t, lists, graph, outs>>

(***************************************************************************)
(* forward (lines 89-124)                                                  *)
(***************************************************************************)
StepWidths == {InputSize - 1, InputSize}

Node(op, layer, step, mask, args, reads) ==
  [op |-> op, layer |-> layer, step |-> step, mask |-> mask, args |-> args, reads |-> reads]

Tensor(shape, id) == [shape |-> shape, id |-> id]

\* the parameters a linear layer's call reads
LinearReads(p, l) ==
  {<<l, "weight">>} \cup (IF p[<<l, "bias">>].origin = "absent" THEN {} ELSE {<<l, "bias">>})

\* the parameters nn.LSTM's call reads: its own flat weights
LstmReads == {"lstm"} \X LstmParams

\* F.linear(input, weight, bias) on an input of shape s: whether the shapes agree
LinearOk(p, l, s) ==
  LET W == p[<<l, "weight">>]
      b == p[<<l, "bias">>]
  IN /\ Len(W.shape) = 2
     /\ Len(s) >= 1
     /\ s[Len(s)] = W.shape[2]
     /\ b.origin = "absent" \/ b.shape = <<W.shape[1]>> \/ b.shape = <<1>>

LinearShape(p, l, s) == [i \in 1..Len(s) |-> IF i = Len(s) THEN p[<<l, "weight">>].shape[1] ELSE s[i]]

\* line 103: squeeze() drops every axis of size 1
Squeeze(s) == SelectSeq(s, LAMBDA n : n # 1)

\* line 102: unsqueeze(0)
Unsqueeze0(s) == <<1>> \o s

\* line 102: nn.LSTM accepts a 3-D input of width input_size with h_0 and c_0
\* of shape (num_layers, batch, hidden_size)
LstmOk(c, xs, hs, cs) ==
  /\ xs[3] = InputSize
  /\ hs = <<1, xs[2], c.nh_lstm>>
  /\ cs = <<1, xs[2], c.nh_lstm>>

\* torch.stack of a list of tensors of one shape
Stack(l) == [shape |-> <<Len(l)>> \o l[1].shape, ids |-> [i \in 1..Len(l) |-> l[i].id]]

\* ForwardOuts were the two logits sequences exchanged
ForwardOutsPcFirst(hd, pcl, b, h, c) == <<Stack(pcl), Stack(hd), Stack(b), Stack(h), Stack(c)>>

\* lines 117-123
ForwardOuts(hd, pcl, b, h, c) == <<Stack(hd), Stack(pcl), Stack(b), Stack(h), Stack(c)>>

\* the node ids of the inputs: the two initial conditions, then the steps of x
XId(j) == 2 + j

\* lines 90-100
ForwardBegin ==
  /\ pc = "constructed"
  /\ fstat = "idle"
  /\ \E B \in 1..MaxBatch, T \in 0..MaxT, w \in StepWidths, tr \in BOOLEAN,
        ic \in {<<cfg.n_pcs, cfg.n_hdcs>>, cfg.te} :
       LET inputs == <<Node("input", "initial_conds", 1, 0, <<>>, {}),
                       Node("input", "initial_conds", 2, 0, <<>>, {})>>
                     \o [j \in 1..T |-> Node("input", "x", j, 0, <<>>, {})]
           n == Len(inputs)
           init == <<B, ic[1] + ic[2]>>
           cat == Node("cat", "", 0, 0, <<1, 2>>, {})
           st == Node("linear", "state_embed", 0, 0, <<n + 1>>, LinearReads(params, "state_embed"))
           ce == Node("linear", "cell_embed", 0, 0, <<n + 1>>, LinearReads(params, "cell_embed"))
       IN /\ inp' = [B |-> B, T |-> T, w |-> w, ic |-> ic, training |-> tr]
          /\ IF LinearOk(params, "state_embed", init) /\ LinearOk(params, "cell_embed", init)
             THEN /\ graph' = inputs \o <<cat, st, ce>>
                  /\ h_t' = Tensor(LinearShape(params, "state_embed", init), n + 2)
                  /\ c_t' = Tensor(LinearShape(params, "cell_embed", init), n + 3)
                  /\ fstat' = "loop"
             ELSE /\ fstat' = "raised"
                  /\ UNCHANGED <<graph, h_t, c_t>>
  /\ UNCHANGED <<cfg, pc, params, li, tensor, tmp, dir, opened, loadstat, k, lists, outs>>

\* lines 101-114: one iteration of the loop over x
ForwardStep ==
  /\ fstat = "loop"
  /\ k < inp.T
  /\ LET xs == <<1, inp.B, inp.w>>
         n == Len(graph)
         hs == Squeeze(<<1, inp.B, cfg.nh_lstm>>)
         bs == LinearShape(params, "bottleneck", hs)
     IN IF /\ LstmOk(cfg, xs, Unsqueeze0(h_t.shape), Unsqueeze0(c_t.shape))
           /\ LinearOk(params, "bottleneck", hs)
           /\ LinearOk(params, "pc_logits", bs)
           /\ LinearOk(params, "hd_logits", bs)
        THEN \E m \in Masks :
               LET lh == Node("lstm_h", "lstm", k + 1, 0, <<XId(k + 1), h_t.id, c_t.id>>, LstmReads)
                   lc == Node("lstm_c", "lstm", k + 1, 0, <<XId(k + 1), h_t.id, c_t.id>>, LstmReads)
                   bn == Node("linear", "bottleneck", k + 1, 0, <<n + 1>>, LinearReads(params, "bottleneck"))
                   dr == IF inp.training THEN <<Node("dropout", "dropout", k + 1, m, <<n + 3>>, {})>> ELSE <<>>
                   a == n + 3 + Len(dr)
                   pp == Node("linear", "pc_logits", k + 1, 0, <<a>>, LinearReads(params, "pc_logits"))
                   hp == Node("linear", "hd_logits", k + 1, 0, <<a>>, LinearReads(params, "hd_logits"))
               IN /\ graph' = graph \o <<lh, lc, bn>> \o dr \o <<pp, hp>>
                  /\ h_t' = Tensor(hs, n + 1)
                  /\ c_t' = Tensor(hs, n + 2)
                  /\ lists' = [logits_hd |-> Append(lists.logits_hd, Tensor(LinearShape(params, "hd_logits", bs), a + 2)),
                               logits_pc |-> Append(lists.logits_pc, Tensor(LinearShape(params, "pc_logits", bs), a + 1)),
                               bottleneck_acts |-> Append(lists.bottleneck_acts, Tensor(bs, a)),
                               rnn_states |-> Append(lists.rnn_states, Tensor(hs, n + 1)),
                               cell_states |-> Append(lists.cell_states, Tensor(hs, n + 2))]
                  /\ k' = k + 1
                  /\ UNCHANGED fstat
        ELSE /\ fstat' = "raised"
             /\ UNCHANGED <<graph, h_t, c_t, lists, k>>
  /\ UNCHANGED <<cfg, pc, params, li, tensor, tmp, dir, opened, loadstat, inp, outs>>

\* lines 116-124: torch.stack raises on an empty list
ForwardReturn ==
  /\ fstat = "loop"
  /\ k = inp.T
  /\ IF inp.T >= 1
     THEN /\ outs' = ForwardOuts(lists.logits_hd, lists.logits_pc, lists.bottleneck_acts,
                                 lists.rnn_states, lists.cell_states)
          /\ fstat' = "returned"
     ELSE /\ fstat' = "raised"
          /\ UNCHANGED outs
  /\ UNCHANGED <<cfg, pc, params, li, tensor, tmp, dir, opened, loadstat, inp, k, h_t, c_t, lists, graph>>

Next == CtorNoWeights \/ CtorLoadWeights \/ ForwardBegin \/ ForwardStep \/ ForwardReturn

Spec == Init /\ [][Next]_vars

(***************************************************************************)
(* Claims about init_weights_from_file                                     *)
(***************************************************************************)
Loaded == loadstat # "none"

DirectlyAssigned == {i \in 1..Len(LoadFiles) : LoadFiles[i].attr[1] # "local"}

FirstMissing == Least({i \in 1..Len(LoadFiles) : LoadFiles[i].file \in dir.missing})

\* C4 (as stated): one call of init_weights_from_file reads exactly eight
\* named files.
C4_Original == loadstat = "ok" => Cardinality(opened) = 8

\* C4 (amended): a successful call of init_weights_from_file has read exactly
\* eleven named files, none of them missing; a directory holding all of them,
\* the gate weights stored with at least 2 dimensions, is sufficient for the
\* load to succeed.
C4_ElevenFiles ==
  /\ loadstat = "ok" => (Cardinality(opened) = 11 /\ opened \cap dir.missing = {})
  /\ (Loaded /\ dir.missing = {} /\ dir.bad # "gates_1d") => loadstat = "ok"

\* a load that succeeded
C4_Witness == loadstat = "ok" /\ pc = "constructed" /\ Cardinality(opened) = 11

\* C5 (as stated): with any file missing the load raises file-not-found, and
\* either all pretrained components were assigned or no parameter was
\* replaced by a loaded value.
C5_Original ==
  (Loaded /\ dir.missing # {}) =>
    /\ loadstat = "FileNotFoundError"
    /\ \/ \A q \in ParamNames : params[q].origin # "file"
       \/ /\ \A i \in DirectlyAssigned : params[LoadFiles[i].attr].origin = "file"
          /\ params[<<"lstm", "weight">>].origin = "file"
          /\ params[<<"lstm", "bias">>].origin = "file"

\* C5 (amended): with any file missing the load raises file-not-found at the
\* first missing file in read order and the constructor returns no model; the
\* parameters assigned before that file is read hold loaded values, and every
\* other parameter keeps its constructed value (a partial application).
C5_PrefixAssigned ==
  (Loaded /\ dir.missing # {}) =>
    /\ loadstat = "FileNotFoundError"
    /\ pc = "raised"
    /\ \A i \in DirectlyAssigned :
         IF i < FirstMissing
         THEN params[LoadFiles[i].attr].origin = "file" /\ params[LoadFiles[i].attr].file = LoadFiles[i].file
         ELSE params[LoadFiles[i].attr] = ParamsAfterInit(cfg, FixedTmp)[LoadFiles[i].attr]
    /\ \A q \in {"lstm"} \X (LstmParams \cup {"weight", "bias"}) : params[q] = ParamsAfterInit(cfg, FixedTmp)[q]

\* a load that raised after replacing some parameters and before replacing others
C5_Witness ==
  /\ loadstat = "FileNotFoundError"
  /\ \E q \in ParamNames : params[q].origin = "file"
  /\ \E i \in DirectlyAssigned : params[LoadFiles[i].attr].origin # "file"

ConstructedShape(q) == CreateLayers(cfg)[q].shape

\* C6 (as stated): the load raises whenever a loaded array's transposed shape
\* differs from the shape of the parameter it is assigned to, and the
\* constructor never returns a model holding a parameter of mismatched shape.
C6_Original ==
  /\ (Loaded /\ \E i \in DirectlyAssigned :
                  LoadFiles[i].file \in opened /\ Reverse(FileShape(cfg, dir, LoadFiles[i])) # ConstructedShape(LoadFiles[i].attr))
       => loadstat # "ok"
  /\ pc = "constructed" => \A i \in DirectlyAssigned : params[LoadFiles[i].attr].shape = ConstructedShape(LoadFiles[i].attr)

\* C6 (amended): init_weights_from_file compares no loaded array with the
\* parameter it replaces: with every file present and the gate weights of at
\* least 2 dimensions the load succeeds and the constructor returns the model
\* whatever the arrays' dimensions, each assigned parameter taking the shape
\* of the transposed array; it raises at load time for a shape only when the
\* gate weights have fewer than 2 dimensions.
C6_NoShapeCheck ==
  /\ (Loaded /\ dir.missing = {} /\ dir.bad # "gates_1d") =>
       /\ loadstat = "ok"
       /\ pc = "constructed"
       /\ \A i \in DirectlyAssigned : params[LoadFiles[i].attr].shape = Reverse(FileShape(cfg, dir, LoadFiles[i]))
  /\ (Loaded /\ dir.missing = {} /\ dir.bad = "gates_1d") => (loadstat = "IndexError" /\ pc = "raised")

\* the constructor returned a model holding a parameter of mismatched shape
C6_Witness ==
  /\ pc = "constructed"
  /\ loadstat = "ok"
  /\ \E i \in DirectlyAssigned : params[LoadFiles[i].attr].shape # ConstructedShape(LoadFiles[i].attr)

\* C3 (as stated): after a successful load every parameter forward reads for
\* the linear layers and the recurrent cell holds the array read from its
\* file; the LSTM step uses the loaded gate weights and biases.
C3_Claim ==
  loadstat = "ok" =>
    \A n \in 1..Len(graph) : \A q \in graph[n].reads :
      q # <<"bottleneck", "bias">> => params[q].origin = "file"

(***************************************************************************)
(* Claims about forward                                                    *)
(***************************************************************************)
Finished == fstat \in {"returned", "raised"}

Last(s) == s[Len(s)]

OutShapesAsSpecified(npc, nhd) ==
  /\ fstat = "returned"
  /\ \A i \in 1..5 : outs[i].shape[1] = inp.T /\ Len(outs[i].ids) = inp.T
  /\ Last(outs[1].shape) = nhd
  /\ Last(outs[2].shape) = npc
  /\ Last(outs[3].shape) = cfg.nh_bottleneck
  /\ Last(outs[4].shape) = cfg.nh_lstm
  /\ Last(outs[5].shape) = cfg.nh_lstm

\* C1 (as stated): for every batch size B >= 1 and sequence length T >= 1,
\* forward with step inputs of width 3 and initial conditions of widths n_pcs
\* and n_hdcs returns five sequences of length T whose widths are n_hdcs,
\* n_pcs, nh_bottleneck, nh_lstm and nh_lstm.
C1_Claim ==
  (/\ Finished
   /\ loadstat = "none"
   /\ cfg.te = <<cfg.n_pcs, cfg.n_hdcs>>
   /\ inp.B >= 1 /\ inp.T >= 1 /\ inp.w = InputSize
   /\ inp.ic = <<cfg.n_pcs, cfg.n_hdcs>>)
  => OutShapesAsSpecified(cfg.n_pcs, cfg.n_hdcs)

\* C2 (as stated): ensembles of 4 and 2 cells, recurrent and bottleneck width
\* 8, a sequence of length 5, batch size 1, initial conditions of widths 4 and
\* 2: forward completes the 5 steps and yields logits of widths 4 and 2 and
\* states of width 8 at every step.
C2_Claim ==
  (/\ Finished
   /\ loadstat = "none"
   /\ cfg.te = <<4, 2>> /\ cfg.nh_lstm = 8 /\ cfg.nh_bottleneck = 8
   /\ cfg.n_pcs = 4 /\ cfg.n_hdcs = 2
   /\ inp.B = 1 /\ inp.T = 5 /\ inp.w = InputSize /\ inp.ic = <<4, 2>>)
  => (k = 5 /\ OutShapesAsSpecified(4, 2))

LinearNode(n, l, arg) == graph[n].op = "linear" /\ graph[n].layer = l /\ graph[n].args = <<arg>>

\* C10: the recurrence is carried in input order.  (h_0, c_0) are state_embed
\* and cell_embed of the concatenated initial conditions; the j-th hidden and
\* cell states are the recurrent cell applied to the j-th input and the
\* (j-1)-th states; the j-th bottleneck activation is dropout of bottleneck of
\* the j-th hidden state (dropout being the identity in evaluation); both
\* logits of step j are computed from that activation; forward returns
\* (hd logits, pc logits, bottleneck activations, hidden states, cell states)
\* and the last hidden and cell states are the final (h, c).
C10_Recurrence ==
  fstat \in {"loop", "returned"} =>
    LET cat == 2 + inp.T + 1
        h0 == cat + 1
        c0 == cat + 2
        H(j) == IF j = 0 THEN h0 ELSE lists.rnn_states[j].id
        C(j) == IF j = 0 THEN c0 ELSE lists.cell_states[j].id
    IN /\ graph[cat].op = "cat" /\ graph[cat].args = <<1, 2>>
       /\ graph[1] = Node("input", "initial_conds", 1, 0, <<>>, {})
       /\ graph[2] = Node("input", "initial_conds", 2, 0, <<>>, {})
       /\ LinearNode(h0, "state_embed", cat)
       /\ LinearNode(c0, "cell_embed", cat)
       /\ \A f \in DOMAIN lists : Len(lists[f]) = k
       /\ h_t.id = H(k) /\ c_t.id = C(k)
       /\ \A j \in 1..k :
            LET b == lists.bottleneck_acts[j].id
            IN /\ graph[XId(j)] = Node("input", "x", j, 0, <<>>, {})
               /\ graph[H(j)].op = "lstm_h" /\ graph[H(j)].args = <<XId(j), H(j - 1), C(j - 1)>>
               /\ graph[C(j)].op = "lstm_c" /\ graph[C(j)].args = <<XId(j), H(j - 1), C(j - 1)>>
               /\ IF inp.training
                  THEN /\ graph[b].op = "dropout"
                       /\ LinearNode(graph[b].args[1], "bottleneck", H(j))
                  ELSE LinearNode(b, "bottleneck", H(j))
               /\ LinearNode(lists.logits_pc[j].id, "pc_logits", b)
               /\ LinearNode(lists.logits_hd[j].id, "hd_logits", b)
       /\ fstat = "returned" =>
            /\ k = inp.T
            /\ outs[1].ids = [j \in 1..k |-> lists.logits_hd[j].id]
            /\ outs[2].ids = [j \in 1..k |-> lists.logits_pc[j].id]
            /\ outs[3].ids = [j \in 1..k |-> lists.bottleneck_acts[j].id]
            /\ outs[4].ids = [j \in 1..k |-> H(j)]
            /\ outs[5].ids = [j \in 1..k |-> C(j)]
            /\ Last(outs[4].ids) = h_t.id
            /\ Last(outs[5].ids) = c_t.id

\* forward returned after several steps with dropout active
C10_Witness == fstat = "returned" /\ inp.T >= 3 /\ inp.training /\ Len(outs[4].ids) = inp.T

====
